---- MODULE Spec2Model ----
(***************************************************************************)
(* A model of the git implementation in src/main.cpp: the loose object     *)
(* store (writeObject / readObject), the directory snapshot (writeTree),   *)
(* and the clone pipeline (reference discovery, pack parsing, delta        *)
(* resolution, checkout).                                                  *)
(*                                                                         *)
(* Byte strings are sequences of byte values 0..255; string literals of    *)
(* the source are written out as their bytes, with the text in a comment.  *)
(* All commands operate on one repository root: `clone <url> <dir>` makes  *)
(* <dir> the current directory, and the other commands are run there.      *)
(***************************************************************************)
EXTENDS Integers, Sequences, FiniteSets, TLC

VARIABLES
    store,      \* .git/objects: path <<dir, file>> -> compressed file bytes
    headFile,   \* contents of .git/HEAD (<<>> while the file is absent)
    workdir,    \* working directory: path (sequence of names) -> node
    out,        \* what the last finished command did: stdout, exit code
    ncmd,       \* number of commands started so far
    pc,         \* position of the running clone command ("idle" otherwise)
    response,   \* body of the last HTTP response (info/refs, then the pack)
    headSha,    \* clone: the selected commit, 40 hex characters
    tempObjs,   \* clone: vector<PackObject> parsed from the pack
    objects,    \* clone: map sha -> PackObject of the resolved objects
    offToSha,   \* clone: map pack offset -> sha
    progress,   \* clone: the resolve loop's progress flag
    idx,        \* clone: index in tempObjs of the running for loop
    remote      \* clone: the remote the running clone talks to

vars == <<store, headFile, workdir, out, ncmd, pc, response, headSha,
          tempObjs, objects, offToSha, progress, idx, remote>>

(***************************************************************************)
(* Bounds                                                                  *)
(***************************************************************************)
\* the number of commands of a run, cat-file (which changes no file) aside
MaxCommands == 1

(***************************************************************************)
(* String literals of the source                                           *)
(***************************************************************************)
S_blob      == <<98,108,111,98>>                    \* "blob"
S_tree      == <<116,114,101,101>>                  \* "tree"
S_commit    == <<99,111,109,109,105,116>>           \* "commit"
S_tag       == <<116,97,103>>                       \* "tag"
S_unknown   == <<117,110,107,110,111,119,110>>      \* "unknown"
S_ofs_delta == <<111,102,115,95,100,101,108,116,97>> \* "ofs_delta"
S_ref_delta == <<114,101,102,95,100,101,108,116,97>> \* "ref_delta"
S_100644    == <<49,48,48,54,52,52>>                \* "100644"
S_40000     == <<52,48,48,48,48>>                   \* "40000"
S_dotgit    == <<46,103,105,116>>                   \* ".git"
S_HEAD      == <<72,69,65,68>>                      \* "HEAD"
S_0000      == <<48,48,48,48>>                      \* "0000"
S_PACK      == <<80,65,67,75>>                      \* "PACK"
S_treeSp    == <<116,114,101,101,32>>               \* "tree "
S_parentSp  == <<112,97,114,101,110,116,32>>        \* "parent "
S_refs_heads_master ==                              \* "refs/heads/master"
    <<114,101,102,115,47,104,101,97,100,115,47,109,97,115,116,101,114>>
S_HEAD_main ==                                      \* "ref: refs/heads/main\n"
    <<114,101,102,58,32,114,101,102,115,47,104,101,97,100,115,47,109,97,105,
      110,10>>
S_HEAD_master ==                                    \* "ref: refs/heads/master\n"
    <<114,101,102,58,32,114,101,102,115,47,104,101,97,100,115,47,109,97,115,
      116,101,114,10>>
S_author ==  \* "author Code Crafter <code@crafters.io> 1700000000 +0000"
    <<97,117,116,104,111,114,32,67,111,100,101,32,67,114,97,102,116,101,114,
      32,60,99,111,100,101,64,99,114,97,102,116,101,114,115,46,105,111,62,32,
      49,55,48,48,48,48,48,48,48,48,32,43,48,48,48,48>>
S_committer == \* "committer Code Crafter <code@crafters.io> 1700000000 +0000"
    <<99,111,109,109,105,116,116,101,114,32,67,111,100,101,32,67,114,97,102,
      116,101,114,32,60,99,111,100,101,64,99,114,97,102,116,101,114,115,46,
      105,111,62,32,49,55,48,48,48,48,48,48,48,48,32,43,48,48,48,48>>

(***************************************************************************)
(* std::string helpers                                                     *)
(***************************************************************************)
\* s.substr(from) with a 1-based first position
Tail_(s, from) == SubSeq(s, from, Len(s))

\* s.substr(from, n) with a 1-based first position: clamps at the end of s
Substr(s, from, n) ==
    SubSeq(s, from, IF from + n - 1 > Len(s) THEN Len(s) ELSE from + n - 1)

\* s.find(b, from): the 1-based position of the first byte b at or after
\* position from, 0 when there is none (string::npos, so that npos + 1 == 0)
FindByte(s, b, from) ==
    LET hits == {k \in from..Len(s) : s[k] = b}
    IN  IF hits = {} THEN 0
        ELSE CHOOSE k \in hits : \A m \in hits : k <= m

\* s.find(pat, from): the 1-based position of the first occurrence of pat at
\* or after position from, 0 when there is none
FindStr(s, pat, from) ==
    LET hits == {k \in from..(Len(s) - Len(pat) + 1) :
                    SubSeq(s, k, k + Len(pat) - 1) = pat}
    IN  IF hits = {} THEN 0
        ELSE CHOOSE k \in hits : \A m \in hits : k <= m

\* s.find(pat) != string::npos
Contains(s, pat) == FindStr(s, pat, 1) # 0

\* operator< of std::string: lexicographic on unsigned bytes
RECURSIVE StrLess(_, _)
StrLess(a, b) ==
    IF b = <<>> THEN FALSE
    ELSE IF a = <<>> THEN TRUE
    ELSE IF a[1] # b[1] THEN a[1] < b[1]
    ELSE StrLess(Tail(a), Tail(b))

\* std::to_string of a size
RECURSIVE to_string(_)
to_string(n) ==
    IF n < 10 THEN <<48 + n>>
    ELSE to_string(n \div 10) \o <<48 + (n % 10)>>

(***************************************************************************)
(* SHA-1, hex, zlib                                                        *)
(***************************************************************************)
DigestLen == 20

\* OpenSSL's SHA1 is taken as a deterministic function from byte strings to
\* DigestLen bytes.  The model's digest is computed from the length of the
\* string and three sums over its bytes, each byte weighted by a different
\* function of its position.
RECURSIVE WeightedSum(_, _, _, _)
WeightedSum(s, w, lo, hi) ==
    IF lo > hi THEN 0
    ELSE IF lo = hi THEN (s[lo] + 1) * (1 + ((w * lo) % 31))
    ELSE LET mid == (lo + hi) \div 2
         IN  WeightedSum(s, w, lo, mid) + WeightedSum(s, w, mid + 1, hi)

SHA1(s) ==
    LET n    == Len(s)
        sums == {<<WeightedSum(s, 0, 1, n) % 251,
                   WeightedSum(s, 1, 1, n) % 241,
                   WeightedSum(s, 7, 1, n) % 239>>}
    IN  CHOOSE h \in {[i \in 1..DigestLen |->
                         ((t[1] + i) * (t[2] + 3 * i) + t[3] * (i + 1) + n * i)
                            % 256] : t \in sums} : TRUE

HexDigit(d) == IF d < 10 THEN 48 + d ELSE 87 + d

RECURSIVE shaToHex(_)
shaToHex(rawSha) ==
    IF rawSha = <<>> THEN <<>>
    ELSE <<HexDigit(rawSha[1] \div 16), HexDigit(rawSha[1] % 16)>>
            \o shaToHex(Tail(rawSha))

RECURSIVE ByteSumIn(_, _, _)
ByteSumIn(s, lo, hi) ==
    IF lo > hi THEN 0
    ELSE IF lo = hi THEN s[lo]
    ELSE LET mid == (lo + hi) \div 2
         IN  ByteSumIn(s, lo, mid) + ByteSumIn(s, mid + 1, hi)

ByteSum(s) == ByteSumIn(s, 1, Len(s))

\* zlib's compress: a two-byte stream header, the data as one stored block
\* with its 16-bit length, and a checksum of the data.
compress(s) ==
    <<120, 156, Len(s) % 256, Len(s) \div 256>> \o s
        \o <<(1 + ByteSum(s)) % 251>>

\* zlib's inflate of the stream that starts at 1-based position from:
\* [ok, data, consumed].  A stream that is cut short or fails its checksum
\* is an error (Z_BUF_ERROR / Z_DATA_ERROR).
inflate(z, from) ==
    IF from + 3 > Len(z) \/ z[from] # 120 \/ z[from + 1] # 156
    THEN [ok |-> FALSE, data |-> <<>>, consumed |-> 0]
    ELSE LET n    == z[from + 2] + 256 * z[from + 3]
             data == Substr(z, from + 4, n)
         IN  IF from + 4 + n > Len(z)
             THEN [ok |-> FALSE, data |-> data, consumed |-> Len(z) - from + 1]
             ELSE IF z[from + 4 + n] # (1 + ByteSum(data)) % 251
             THEN [ok |-> FALSE, data |-> data, consumed |-> n + 5]
             ELSE [ok |-> TRUE, data |-> data, consumed |-> n + 5]

(***************************************************************************)
(* The loose object store                                                  *)
(***************************************************************************)
\* ".git/objects/" + sha.substr(0, 2) + "/" + sha.substr(2)
ObjectPath(shaHex) == <<Substr(shaHex, 1, 2), Tail_(shaHex, 3)>>

\* ofstream(path) << bytes: creates or truncates the file
PutFile(st, path, bytes) ==
    [p \in DOMAIN st \cup {path} |-> IF p = path THEN bytes ELSE st[p]]

\* Frame without the NUL that ends the header
MutFrame(type, content) ==
    type \o <<32>> \o to_string(Len(content)) \o content

\* type + " " + to_string(content.size()) + '\0' + content
Frame(type, content) ==
    type \o <<32>> \o to_string(Len(content)) \o <<0>> \o content

\* writeObject: [sha |-> the raw digest, store |-> the store afterwards]
writeObject(type, content, st) ==
    LET full    == Frame(type, content)
        sha1Raw == SHA1(full)
    IN  [sha   |-> sha1Raw,
         store |-> PutFile(st, ObjectPath(shaToHex(sha1Raw)), compress(full))]

\* writeObjectWithSha with the file name split off one character early
MutWriteObjectWithSha(content, shaHex, st) ==
    PutFile(st, <<Substr(shaHex, 1, 2), Tail_(shaHex, 2)>>, compress(content))

\* writeObjectWithSha: compresses content and writes it under shaHex
writeObjectWithSha(content, shaHex, st) ==
    PutFile(st, ObjectPath(shaHex), compress(content))

\* readObject: [ok, data]; ok is FALSE where the source throws (the object
\* file does not exist, or sha is too short to split).  The source loops
\* until Z_STREAM_END: a file that does not inflate is not returned from.
readObject(sha, st) ==
    IF Len(sha) < 2 \/ ObjectPath(sha) \notin DOMAIN st
    THEN [ok |-> FALSE, data |-> <<>>]
    ELSE LET r == inflate(st[ObjectPath(sha)], 1)
         IN  [ok |-> r.ok, data |-> r.data]

\* cat-file's split: content.substr(content.find('\0') + 1)
AfterNul(content) == Tail_(content, FindByte(content, 0, 1) + 1)

\* the header of a framed object: what precedes the first NUL
BeforeNul(content) == SubSeq(content, 1, FindByte(content, 0, 1) - 1)

(***************************************************************************)
(* Tree objects and the directory snapshot                                 *)
(***************************************************************************)
\* TreeEntry::operator<
TreeEntryLess(a, b) == StrLess(a.name, b.name)

\* std::sort(entries.begin(), entries.end()) with TreeEntry::operator<
RECURSIVE InsertEntry(_, _)
InsertEntry(e, sorted) ==
    IF sorted = <<>> THEN <<e>>
    ELSE IF TreeEntryLess(e, sorted[1]) THEN <<e>> \o sorted
    ELSE <<sorted[1]>> \o InsertEntry(e, Tail(sorted))

RECURSIVE SortEntries(_)
SortEntries(entries) ==
    IF entries = <<>> THEN <<>>
    ELSE InsertEntry(entries[1], SortEntries(Tail(entries)))

\* treeContent += e.mode + " " + e.name + '\0' + e.shaRaw, for each entry
RECURSIVE TreeContent(_)
TreeContent(entries) ==
    IF entries = <<>> THEN <<>>
    ELSE entries[1].mode \o <<32>> \o entries[1].name \o <<0>>
            \o entries[1].shaRaw \o TreeContent(Tail(entries))

\* fs::directory_iterator(directory): the children of a directory, in the
\* order the file system hands them out (each node's ord)
ChildPaths(directory, wd) ==
    {p \in DOMAIN wd : Len(p) = Len(directory) + 1
                       /\ SubSeq(p, 1, Len(directory)) = directory}

RECURSIVE InOrder(_, _)
InOrder(paths, wd) ==
    IF paths = {} THEN <<>>
    ELSE LET p == CHOOSE q \in paths : \A r \in paths : wd[q].ord <= wd[r].ord
         IN  <<p>> \o InOrder(paths \ {p}, wd)

\* writeTree: [sha |-> raw digest of the tree, store |-> the store after
\* every blob and tree below directory has been written]
RECURSIVE writeTree(_, _, _)
RECURSIVE WriteTreeLoop(_, _, _, _)
WriteTreeLoop(paths, wd, st, entries) ==
    IF paths = <<>> THEN [entries |-> entries, store |-> st]
    ELSE LET p    == paths[1]
             name == p[Len(p)]
         IN  IF name = S_dotgit
             THEN WriteTreeLoop(Tail(paths), wd, st, entries)
             ELSE IF wd[p].kind = "dir"
             THEN LET r == writeTree(p, wd, st)
                  IN  WriteTreeLoop(Tail(paths), wd, r.store,
                        Append(entries, [name |-> name, mode |-> S_40000,
                                         shaRaw |-> r.sha]))
             ELSE \* an ifstream that fails to open reads as no bytes
                  LET content == IF wd[p].readable THEN wd[p].content
                                 ELSE <<>>
                      r == writeObject(S_blob, content, st)
                  IN  WriteTreeLoop(Tail(paths), wd, r.store,
                        Append(entries, [name |-> name, mode |-> S_100644,
                                         shaRaw |-> r.sha]))

writeTree(directory, wd, st) ==
    LET w == WriteTreeLoop(InOrder(ChildPaths(directory, wd), wd), wd, st,
                           <<>>)
    IN  writeObject(S_tree, TreeContent(SortEntries(w.entries)), w.store)

(***************************************************************************)
(* Pack files: entry headers, deltas                                       *)
(***************************************************************************)
\* bit k of the byte b is set (b & (1 << k))
Bit(b, k) == (b \div (2 ^ k)) % 2 = 1

\* data[pos] of a std::string with a 0-based pos; at pos == size() the
\* terminating 0 is read
At(data, pos) == IF pos < Len(data) THEN data[pos + 1] ELSE 0

\* typeToString
typeToString(type) ==
    CASE type = 1 -> S_commit
      [] type = 2 -> S_tree
      [] type = 3 -> S_blob
      [] type = 4 -> S_tag
      [] type = 6 -> S_ofs_delta
      [] type = 7 -> S_ref_delta
      [] OTHER    -> S_unknown

\* createPktLine: four lowercase hex digits of data.size() + 4, then data
Hex4(n) ==
    <<HexDigit((n \div 4096) % 16), HexDigit((n \div 256) % 16),
      HexDigit((n \div 16) % 16), HexDigit(n % 16)>>

createPktLine(data) == Hex4(Len(data) + 4) \o data

\* decompressZlibStream(data, offset) with a 0-based offset: the loop ends
\* on Z_STREAM_END, Z_BUF_ERROR and Z_DATA_ERROR alike and returns what was
\* inflated and consumed so far
decompressZlibStream(data, offset) ==
    LET r == inflate(data, offset + 1)
    IN  [result |-> r.data, consumed |-> r.consumed]

\* the two size loops of applyDelta: a little-endian base-128 number read
\* from the 0-based pos; [val, pos]
RECURSIVE DeltaSize(_, _, _, _)
DeltaSize(delta, pos, shift, acc) ==
    IF pos >= Len(delta) THEN [val |-> acc, pos |-> pos]
    ELSE LET b  == delta[pos + 1]
             v  == acc + (b % 128) * (2 ^ shift)
         IN  IF b < 128 THEN [val |-> v, pos |-> pos + 1]
             ELSE DeltaSize(delta, pos + 1, shift + 7, v)

\* the optional bytes of a copy instruction: for each of the bits first..last
\* of cmd that is set, the next delta byte shifted by 8 per bit; [val, pos]
RECURSIVE CopyField(_, _, _, _, _, _)
CopyField(delta, pos, cmd, bit, last, k) ==
    IF bit > last THEN [val |-> 0, pos |-> pos]
    ELSE IF Bit(cmd, bit)
    THEN LET rest == CopyField(delta, pos + 1, cmd, bit + 1, last, k + 1)
         IN  [val |-> At(delta, pos) * (256 ^ k) + rest.val, pos |-> rest.pos]
    ELSE CopyField(delta, pos, cmd, bit + 1, last, k + 1)

\* the instruction loop of applyDelta; ok is FALSE where substr throws
\* std::out_of_range (its first position lies beyond the end)
RECURSIVE DeltaLoop(_, _, _, _)
DeltaLoop(base, delta, pos, result) ==
    IF pos >= Len(delta) THEN [ok |-> TRUE, data |-> result]
    ELSE LET cmd == delta[pos + 1]
         IN  IF cmd >= 128
             THEN LET off      == CopyField(delta, pos + 1, cmd, 0, 3, 0)
                      siz      == CopyField(delta, off.pos, cmd, 4, 6, 0)
                      copyOff  == off.val
                      copySize == IF siz.val = 0 THEN 65536 ELSE siz.val
                  IN  IF copyOff > Len(base)
                      THEN [ok |-> FALSE, data |-> result]
                      ELSE DeltaLoop(base, delta, siz.pos,
                              result \o Substr(base, copyOff + 1, copySize))
             ELSE IF cmd > 0
             THEN IF pos + 1 > Len(delta)
                  THEN [ok |-> FALSE, data |-> result]
                  ELSE DeltaLoop(base, delta, pos + 1 + cmd,
                          result \o Substr(delta, pos + 2, cmd))
             ELSE DeltaLoop(base, delta, pos + 1, result)

\* applyDelta: [ok, data]
applyDelta(base, delta) ==
    LET srcSize    == DeltaSize(delta, 0, 0, 0)
        targetSize == DeltaSize(delta, srcSize.pos, 0, 0)
    IN  DeltaLoop(base, delta, targetSize.pos, <<>>)

\* the declared target size of a delta (the second size of its header)
DeltaTargetSize(delta) ==
    DeltaSize(delta, DeltaSize(delta, 0, 0, 0).pos, 0, 0).val

\* PackObject
PackObject(type, data, sha, baseSha, offset, baseOffset) ==
    [type |-> type, data |-> data, sha |-> sha, baseSha |-> baseSha,
     offset |-> offset, baseOffset |-> baseOffset]

\* the position after the size bytes of an entry header whose first byte b
\* was read just before the 0-based pos
RECURSIVE AfterSize(_, _, _)
AfterSize(packData, pos, b) ==
    IF b >= 128 THEN AfterSize(packData, pos + 1, At(packData, pos))
    ELSE pos

\* the negative offset of an ofs-delta: [neg, pos]
RECURSIVE OfsLoop(_, _, _, _)
OfsLoop(packData, pos, b, neg) ==
    IF b >= 128
    THEN LET c == At(packData, pos)
         IN  OfsLoop(packData, pos + 1, c, (neg + 1) * 128 + (c % 128))
    ELSE [neg |-> neg, pos |-> pos]

\* one iteration of the parse loop at the 0-based pos: [obj, pos]
ParseEntry(packData, pos) ==
    LET b     == At(packData, pos)
        type  == (b \div 16) % 8
        p1    == AfterSize(packData, pos + 1, b)
        ofs   == LET c == At(packData, p1)
                 IN  OfsLoop(packData, p1 + 1, c, c % 128)
        p2    == IF type = 6 THEN ofs.pos
                 ELSE IF type = 7 THEN p1 + DigestLen
                 ELSE p1
        z     == decompressZlibStream(packData, p2)
    IN  [obj |-> PackObject(
                    type, z.result, <<>>,
                    IF type = 7
                    THEN shaToHex(SubSeq(packData, p1 + 1, p1 + DigestLen))
                    ELSE <<>>,
                    pos,
                    IF type = 6 THEN pos - ofs.neg ELSE 0),
         pos |-> p2 + z.consumed]

\* the parse loop: numObjs entries from the 0-based pos
RECURSIVE ParseEntries(_, _, _)
ParseEntries(packData, pos, numObjs) ==
    IF numObjs = 0 THEN <<>>
    ELSE LET e == ParseEntry(packData, pos)
         IN  <<e.obj>> \o ParseEntries(packData, e.pos, numObjs - 1)

\* bytes 8..11 of the pack, big-endian
NumObjs(packData) ==
    At(packData, 8) * 16777216 + At(packData, 9) * 65536
        + At(packData, 10) * 256 + At(packData, 11)

PackHeaderLen == 12

ParsePack(packData) ==
    ParseEntries(packData, PackHeaderLen, NumObjs(packData))

(***************************************************************************)
(* The working directory                                                   *)
(***************************************************************************)
File(content, readable, ord) ==
    [kind |-> "file", content |-> content, readable |-> readable, ord |-> ord]

Dir(ord) == [kind |-> "dir", content |-> <<>>, readable |-> TRUE, ord |-> ord]

\* the function with the given set of <<path, node>> pairs as its graph
Nodes(pairs) ==
    [p \in {pr[1] : pr \in pairs} |-> (CHOOSE pr \in pairs : pr[1] = p)[2]]

NextOrd(wd) ==
    IF DOMAIN wd = {} THEN 1
    ELSE 1 + (CHOOSE n \in {wd[p].ord : p \in DOMAIN wd} :
                \A q \in DOMAIN wd : wd[q].ord <= n)

\* fs::create_directories(path) of a directory whose parent exists
MakeDir(wd, path) ==
    IF path \in DOMAIN wd THEN wd
    ELSE [p \in DOMAIN wd \cup {path} |->
            IF p = path THEN Dir(NextOrd(wd)) ELSE wd[p]]

\* every write into the store creates .git on demand
WithGit(wd) == MakeDir(wd, <<S_dotgit>>)

N_a   == <<97>>          \* "a"
N_a_c == <<97,46,99>>    \* "a.c"
N_a_b == <<97,45,98>>    \* "a-b"
N_b   == <<98>>          \* "b"

\* The working directories a run starts from.
InitWorkdirs ==
    { Nodes({ <<<<N_a_c>>, File(<<120>>, TRUE, 1)>>,
              <<<<N_a>>, Dir(2)>>,
              <<<<N_a, N_b>>, File(<<0, 120>>, TRUE, 3)>>,
              <<<<N_a_b>>, File(<<>>, TRUE, 4)>> }),
      Nodes({ <<<<N_b>>, File(<<120>>, TRUE, 1)>>,
              <<<<N_a>>, Dir(2)>>,
              <<<<N_a, N_b>>, File(<<121, 0>>, FALSE, 3)>> }),
      Nodes({ <<<<N_b>>, File(<<120>>, FALSE, 1)>>,
              <<<<N_a>>, File(<<32, 120>>, TRUE, 2)>> }) }

(***************************************************************************)
(* Checkout                                                                *)
(***************************************************************************)
\* std::getline over the text from the 1-based position from: the pieces
\* between line feeds (a final piece without a line feed included)
RECURSIVE SplitLines(_, _)
SplitLines(text, from) ==
    IF from > Len(text) THEN <<>>
    ELSE LET nl == FindByte(text, 10, from)
         IN  IF nl = 0 THEN <<Tail_(text, from)>>
             ELSE <<SubSeq(text, from, nl - 1)>> \o SplitLines(text, nl + 1)

\* ofstream out(path); out << content: nothing is written where the path is
\* a directory
WriteFile(wd, path, content) ==
    IF path \in DOMAIN wd
    THEN IF wd[path].kind = "dir" THEN wd
         ELSE [wd EXCEPT ![path].content = content]
    ELSE [p \in DOMAIN wd \cup {path} |->
            IF p = path THEN File(content, TRUE, NextOrd(wd)) ELSE wd[p]]

\* checkoutRecursive: [ok, workdir]; ok is FALSE where the source throws (an
\* object is missing, a directory is to be created where a file is) and for
\* a tree body that does not parse into entries
RECURSIVE checkoutRecursive(_, _, _, _)
RECURSIVE CheckoutLoop(_, _, _, _, _)
CheckoutLoop(body, i, dir, wd, st) ==
    IF i >= Len(body) THEN [ok |-> TRUE, workdir |-> wd]
    ELSE LET spacePos == FindByte(body, 32, i + 1)
             nullPos  == IF spacePos = 0 THEN 0
                         ELSE FindByte(body, 0, spacePos)
         IN  IF spacePos = 0 \/ nullPos = 0
             THEN [ok |-> FALSE, workdir |-> wd]
             ELSE LET mode      == SubSeq(body, i + 1, spacePos - 1)
                      name      == SubSeq(body, spacePos + 1, nullPos - 1)
                      shaRaw    == Substr(body, nullPos + 1, DigestLen)
                      entrySha  == shaToHex(shaRaw)
                      entryPath == Append(dir, name)
                  IN  IF mode = S_40000
                      THEN IF entryPath \in DOMAIN wd
                                /\ wd[entryPath].kind = "file"
                           THEN [ok |-> FALSE, workdir |-> wd]
                           ELSE LET r == checkoutRecursive(entrySha,
                                            entryPath, MakeDir(wd, entryPath),
                                            st)
                                IN  IF r.ok
                                    THEN CheckoutLoop(body,
                                            nullPos + DigestLen, dir,
                                            r.workdir, st)
                                    ELSE r
                      ELSE LET blobFull == readObject(entrySha, st)
                           IN  IF blobFull.ok
                               THEN CheckoutLoop(body, nullPos + DigestLen,
                                      dir,
                                      WriteFile(wd, entryPath,
                                                AfterNul(blobFull.data)),
                                      st)
                               ELSE [ok |-> FALSE, workdir |-> wd]

checkoutRecursive(treeSha, dir, wd, st) ==
    LET content == readObject(treeSha, st)
    IN  IF content.ok
        THEN CheckoutLoop(AfterNul(content.data), 0, dir, wd, st)
        ELSE [ok |-> FALSE, workdir |-> wd]

\* the tree named by the first line of a commit that starts with "tree ",
\* <<>> when there is none
RECURSIVE FindTreeLine(_, _)
FindTreeLine(lines, k) ==
    IF k > Len(lines) THEN <<>>
    ELSE IF Substr(lines[k], 1, 5) = S_treeSp
    THEN Substr(lines[k], 6, 2 * DigestLen)
    ELSE FindTreeLine(lines, k + 1)

(***************************************************************************)
(* Commands that run in one step                                           *)
(***************************************************************************)
\* the identifiers of the loose objects
StoreIds == {p[1] \o p[2] : p \in DOMAIN store}

\* an identifier that names no object
ZeroId == [i \in 1..(2 * DigestLen) |-> 48]

FileContents == { <<>>, <<120>>, <<0, 120>>, <<104, 105, 32, 0, 10>> }

Messages == { <<109>> }     \* "m"

\* no command is running and one more may be started
Idle == pc = "idle" /\ ncmd < MaxCommands

\* out: the command that ran last, its exit code, what it printed, and its
\* argument (the file content of hash-object, the identifier of cat-file,
\* the tree of commit-tree).
\*
\* the variables of a clone process are those of the last clone run; a
\* command that is not a clone leaves none
CloneVarsReset ==
    /\ pc' = "idle"
    /\ response' = <<>>
    /\ headSha' = <<>>
    /\ tempObjs' = <<>>
    /\ objects' = Nodes({})
    /\ offToSha' = Nodes({})
    /\ progress' = FALSE
    /\ idx' = 0
    /\ remote' = [up |-> FALSE, ad |-> [refs |-> <<>>, sym |-> <<>>],
                  entries |-> <<>>]

S_Initialized ==            \* "Initialized git directory\n"
    <<73,110,105,116,105,97,108,105,122,101,100,32,103,105,116,32,100,105,
      114,101,99,116,111,114,121,10>>

\* main, command == "init"
CmdInit ==
    /\ Idle
    /\ ncmd' = ncmd + 1
    /\ workdir' = WithGit(workdir)
    /\ headFile' = S_HEAD_main
    /\ out' = [cmd |-> "init", exit |-> 0, stdout |-> S_Initialized,
               arg |-> <<>>]
    /\ UNCHANGED store
    /\ CloneVarsReset

\* main, command == "cat-file" with -p and the identifier sha
CmdCatFile(sha) ==
    /\ pc = "idle"
    /\ UNCHANGED ncmd
    /\ LET r == readObject(sha, store)
       IN  out' = IF r.ok
                  THEN [cmd |-> "cat-file", exit |-> 0,
                        stdout |-> AfterNul(r.data), arg |-> sha]
                  ELSE [cmd |-> "cat-file", exit |-> 1, stdout |-> <<>>,
                        arg |-> sha]
    /\ UNCHANGED <<store, headFile, workdir>>
    /\ CloneVarsReset

\* main, command == "hash-object" with -w and a file holding content
CmdHashObject(content) ==
    /\ Idle
    /\ ncmd' = ncmd + 1
    /\ LET r == writeObject(S_blob, content, store)
       IN  /\ store' = r.store
           /\ out' = [cmd |-> "hash-object", exit |-> 0,
                      stdout |-> shaToHex(r.sha) \o <<10>>,
                      arg |-> content]
    /\ workdir' = WithGit(workdir)
    /\ UNCHANGED headFile
    /\ CloneVarsReset

\* main, command == "write-tree"
CmdWriteTree ==
    /\ Idle
    /\ ncmd' = ncmd + 1
    /\ LET r == writeTree(<<>>, workdir, store)
       IN  /\ store' = r.store
           /\ out' = [cmd |-> "write-tree", exit |-> 0,
                      stdout |-> shaToHex(r.sha) \o <<10>>, arg |-> <<>>]
    /\ workdir' = WithGit(workdir)
    /\ UNCHANGED headFile
    /\ CloneVarsReset

\* the payload commit-tree builds from its arguments
CommitContent(tree_sha, parent_sha, message) ==
    S_treeSp \o tree_sha \o <<10>>
      \o (IF parent_sha # <<>> THEN S_parentSp \o parent_sha \o <<10>>
          ELSE <<>>)
      \o S_author \o <<10>> \o S_committer \o <<10>> \o <<10>>
      \o message \o <<10>>

\* main, command == "commit-tree" (parent_sha is <<>> without -p)
CmdCommitTree(tree_sha, parent_sha, message) ==
    /\ Idle
    /\ ncmd' = ncmd + 1
    /\ LET r == writeObject(S_commit,
                            CommitContent(tree_sha, parent_sha, message),
                            store)
       IN  /\ store' = r.store
           /\ out' = [cmd |-> "commit-tree", exit |-> 0,
                      stdout |-> shaToHex(r.sha) \o <<10>>,
                      arg |-> tree_sha]
    /\ workdir' = WithGit(workdir)
    /\ UNCHANGED headFile
    /\ CloneVarsReset

(***************************************************************************)
(* The remote: what info/refs and git-upload-pack answer                   *)
(***************************************************************************)
R_blob == <<104,105,10>>                                \* "hi\n"
R_blobRaw == SHA1(Frame(S_blob, R_blob))
R_tree ==
    TreeContent(<<[mode |-> S_100644, name |-> <<102>>, shaRaw |-> R_blobRaw]>>)
R_treeRaw == SHA1(Frame(S_tree, R_tree))
R_commit == CommitContent(shaToHex(R_treeRaw), <<>>, <<109>>)
R_commitHex == shaToHex(SHA1(Frame(S_commit, R_commit)))

\* an identifier of an object the remote does not send
X_raw == [i \in 1..DigestLen |-> 17]
X_hex == shaToHex(X_raw)

\* "hi\n!" and its identifier: the blob the delta D_bang makes of R_blob
R_blob2Raw == SHA1(Frame(S_blob, R_blob \o <<33>>))

\* deltas against R_blob (3 bytes): source size, target size, instructions
D_bang     == <<3, 4, 144, 3, 1, 33>>     \* copy 0..3, insert "!"
D_quest    == <<3, 4, 144, 3, 1, 63>>     \* copy 0..3, insert "?"
D_cmd0     == <<3, 4, 144, 3, 0, 1, 35>>  \* copy 0..3, cmd 0, insert "#"
D_mismatch == <<3, 9, 144, 3, 1, 36>>     \* declares 9 bytes, emits 4
D_clamp    == <<3, 4, 145, 1, 4>>         \* copy 1..5 of a 3-byte base
D_beyond   == <<3, 2, 145, 9, 2>>         \* copy from offset 9
D_whole    == <<3, 4, 128, 1, 37>>        \* copy size 0 (0x10000), insert "%"
\* a delta against "hi\n!" (4 bytes)
D_chain    == <<4, 5, 144, 4, 1, 33>>     \* copy 0..4, insert "!"

\* what the remote puts into a pack entry: base is the entry's base, an
\* identifier (ref-delta) or the index of an earlier entry (ofs-delta)
Entry(type, data, base) == [type |-> type, data |-> data, base |-> base]

RECURSIVE Varint7(_)
Varint7(n) ==
    IF n < 128 THEN <<n>> ELSE <<128 + (n % 128)>> \o Varint7(n \div 128)

EntryHeader(type, size) ==
    IF size < 16 THEN <<type * 16 + size>>
    ELSE <<128 + type * 16 + (size % 16)>> \o Varint7(size \div 16)

RECURSIVE OfsPrefix(_)
OfsPrefix(n) ==
    IF n = 0 THEN <<>>
    ELSE OfsPrefix((n - 1) \div 128) \o <<128 + ((n - 1) % 128)>>

OfsEncode(n) == OfsPrefix(n \div 128) \o <<n % 128>>

EncodeEntry(e, off, offsets) ==
    EntryHeader(e.type, Len(e.data))
      \o (IF e.type = 6 THEN OfsEncode(off - offsets[e.base])
          ELSE IF e.type = 7 THEN e.base
          ELSE <<>>)
      \o compress(e.data)

RECURSIVE EncodeEntries(_, _, _, _)
EncodeEntries(es, k, off, offsets) ==
    IF k > Len(es) THEN <<>>
    ELSE LET b == EncodeEntry(es[k], off, offsets)
         IN  b \o EncodeEntries(es, k + 1, off + Len(b), Append(offsets, off))

\* "PACK", version 2, the count, the entries, the trailing digest
PackOf(es) ==
    LET body == S_PACK \o <<0, 0, 0, 2>> \o <<0, 0, 0, Len(es)>>
                  \o EncodeEntries(es, 1, PackHeaderLen, <<>>)
    IN  body \o SHA1(body)

Base3 == <<Entry(1, R_commit, 0), Entry(2, R_tree, 0), Entry(3, R_blob, 0)>>

PackEntryLists ==
    { Base3,
      Base3 \o <<Entry(7, D_bang, R_blobRaw)>>,
      Base3 \o <<Entry(6, D_quest, 3)>>,
      Base3 \o <<Entry(7, D_bang, X_raw)>>,
      Base3 \o <<Entry(7, D_cmd0, R_blobRaw)>>,
      Base3 \o <<Entry(7, D_mismatch, R_blobRaw)>>,
      Base3 \o <<Entry(6, D_clamp, 3)>>,
      Base3 \o <<Entry(7, D_beyond, R_blobRaw)>>,
      Base3 \o <<Entry(7, D_whole, R_blobRaw)>>,
      Base3 \o <<Entry(0, <<122>>, 0)>>,
      Base3 \o <<Entry(5, <<122, 122>>, 0)>>,
      Base3 \o <<Entry(4, <<116>>, 0)>>,
      Base3 \o <<Entry(6, D_bang, 3), Entry(6, D_chain, 4)>>,
      <<Entry(7, D_chain, R_blob2Raw), Entry(7, D_bang, R_blobRaw)>> \o Base3,
      <<Entry(2, R_tree, 0), Entry(3, R_blob, 0)>> }

S_NAK == <<78,65,75,10>>                                \* "NAK\n"

\* the body of the git-upload-pack response
PackResponse(es) ==
    IF es = <<>> THEN createPktLine(S_NAK)
    ELSE createPktLine(S_NAK) \o PackOf(es)

S_service ==                          \* "# service=git-upload-pack\n"
    <<35,32,115,101,114,118,105,99,101,61,103,105,116,45,117,112,108,111,97,
      100,45,112,97,99,107,10>>
S_refs_heads == <<114,101,102,115,47,104,101,97,100,115,47>> \* "refs/heads/"
S_symref ==                           \* "symref=HEAD:refs/heads/"
    <<115,121,109,114,101,102,61,72,69,65,68,58,114,101,102,115,47,104,101,
      97,100,115,47>>
S_caps       == <<111,102,115,45,100,101,108,116,97>>   \* "ofs-delta"
B_main       == <<109,97,105,110>>                      \* "main"
B_master     == <<109,97,115,116,101,114>>              \* "master"
B_master_old == <<109,97,115,116,101,114,45,111,108,100>> \* "master-old"
B_dev        == <<100,101,118>>                         \* "dev"
B_HEAD_fix   == <<72,69,65,68,45,102,105,120>>          \* "HEAD-fix"

Ref(name, sha) == [name |-> name, sha |-> sha]
Branch(b, sha) == Ref(S_refs_heads \o b, sha)

\* the capabilities after the NUL of the first reference line; sym is the
\* branch HEAD points at (<<>> when HEAD is not advertised)
Caps(sym) ==
    IF sym = <<>> THEN S_caps ELSE S_caps \o <<32>> \o S_symref \o sym

RECURSIVE RefLines(_, _)
RefLines(refs, k) ==
    IF k > Len(refs) THEN <<>>
    ELSE createPktLine(refs[k].sha \o <<32>> \o refs[k].name \o <<10>>)
            \o RefLines(refs, k + 1)

\* the body of the info/refs response
AdBody(refs, sym) ==
    createPktLine(S_service) \o S_0000
      \o (IF refs = <<>> THEN <<>>
          ELSE createPktLine(refs[1].sha \o <<32>> \o refs[1].name \o <<0>>
                               \o Caps(sym) \o <<10>>)
                 \o RefLines(refs, 2))
      \o S_0000

Advertisements ==
    { [refs |-> <<Ref(S_HEAD, R_commitHex), Branch(B_master, R_commitHex)>>,
       sym  |-> B_master],
      [refs |-> <<Ref(S_HEAD, X_hex), Branch(B_main, X_hex),
                  Branch(B_master, R_commitHex)>>,
       sym  |-> B_main],
      [refs |-> <<Ref(S_HEAD, R_commitHex), Branch(B_main, R_commitHex)>>,
       sym  |-> B_main],
      [refs |-> <<Ref(S_HEAD, R_commitHex), Branch(B_main, R_commitHex),
                  Branch(B_master_old, X_hex)>>,
       sym  |-> B_main],
      [refs |-> <<Ref(S_HEAD, X_hex), Branch(B_master, R_commitHex),
                  Branch(B_master_old, X_hex)>>,
       sym  |-> B_master_old],
      [refs |-> <<Branch(B_dev, X_hex)>>, sym |-> <<>>],
      [refs |-> <<Branch(B_HEAD_fix, R_commitHex)>>, sym |-> <<>>],
      [refs |-> <<Branch(B_master, R_commitHex)>>, sym |-> <<>>],
      [refs |-> <<Branch(B_master, R_commitHex), Ref(S_HEAD, X_hex)>>,
       sym  |-> <<>>],
      [refs |-> <<>>, sym |-> <<>>] }

MainAd ==
    [refs |-> <<Ref(S_HEAD, R_commitHex), Branch(B_master, R_commitHex)>>,
     sym  |-> B_master]

\* A remote: whether info/refs answers at all, what it advertises, and the
\* entries of the pack it sends (<<>>: an answer without a pack).
Remote(up, ad, entries) == [up |-> up, ad |-> ad, entries |-> entries]

NoRemote == Remote(FALSE, [refs |-> <<>>, sym |-> <<>>], <<>>)

Remotes ==
    {Remote(TRUE, MainAd, es) : es \in PackEntryLists}
      \cup {Remote(TRUE, ad, Base3) : ad \in Advertisements}
      \cup {NoRemote, Remote(TRUE, MainAd, <<>>)}

(***************************************************************************)
(* clone                                                                   *)
(***************************************************************************)
\* a clone that has not ended yet has no exit code
Running == [cmd |-> "clone", exit |-> -1, stdout |-> <<>>, arg |-> <<>>]

\* the clone process ends with an exit code
CloneExit(code) ==
    /\ pc' = "idle"
    /\ out' = [cmd |-> "clone", exit |-> code, stdout |-> <<>>, arg |-> <<>>]

\* main, command == "clone": the directories are created and info/refs is
\* fetched (httpGet throws when curl fails)
CmdClone(r) ==
    /\ Idle
    /\ ncmd' = ncmd + 1
    /\ workdir' = WithGit(workdir)
    /\ remote' = r
    /\ headSha' = <<>>
    /\ tempObjs' = <<>>
    /\ objects' = Nodes({})
    /\ offToSha' = Nodes({})
    /\ progress' = FALSE
    /\ idx' = 0
    /\ IF r.up
       THEN /\ response' = AdBody(r.ad.refs, r.ad.sym)
            /\ pc' = "discovery"
            /\ out' = Running
       ELSE /\ response' = <<>>
            /\ CloneExit(1)
    /\ UNCHANGED <<store, headFile>>

\* the discovery loop over the lines of the advertisement from line k on:
\* the value of headSha when the loop ends
RECURSIVE SelectHead(_, _, _)
SelectHead(lines, k, sha) ==
    IF k > Len(lines) THEN sha
    ELSE LET line == lines[k]
         IN  IF Len(line) > 44
                  /\ (Contains(line, S_refs_heads_master)
                        \/ Contains(line, S_HEAD))
             THEN LET found == IF Substr(line, 1, 4) = S_0000
                               THEN Substr(line, 9, 40)
                               ELSE Substr(line, 5, 40)
                  IN  IF Contains(line, S_refs_heads_master) THEN found
                      ELSE SelectHead(lines, k + 1, found)
             ELSE SelectHead(lines, k + 1, sha)

\* clone, step 1: select the commit, write .git/HEAD
CloneDiscovery ==
    /\ pc = "discovery"
    /\ LET sha == SelectHead(SplitLines(response, 1), 1, <<>>)
       IN  IF sha = <<>>
           THEN /\ CloneExit(1)
                /\ UNCHANGED <<headSha, headFile>>
           ELSE /\ headSha' = Substr(sha, 1, 40)
                /\ headFile' = S_HEAD_master
                /\ pc' = "negotiate"
                /\ UNCHANGED out
    /\ UNCHANGED <<store, workdir, ncmd, response, tempObjs, objects,
                   offToSha, progress, idx, remote>>

\* clone, steps 2 and 3: post the want, find "PACK" in the answer, parse the
\* entries of the pack
CloneRequestPack ==
    /\ pc = "negotiate"
    /\ LET packData == PackResponse(remote.entries)
           pStart   == FindStr(packData, S_PACK, 1)
       IN  IF pStart = 0
           THEN /\ response' = packData
                /\ CloneExit(1)
                /\ UNCHANGED <<tempObjs, idx>>
           ELSE /\ response' = Tail_(packData, pStart)
                /\ tempObjs' = ParsePack(Tail_(packData, pStart))
                /\ idx' = 1
                /\ pc' = "first_pass"
                /\ UNCHANGED out
    /\ UNCHANGED <<store, headFile, workdir, ncmd, headSha, objects,
                   offToSha, progress, remote>>

\* the framed bytes of a pack object
FullOf(obj) == Frame(typeToString(obj.type), obj.data)

\* m[key] = value of a std::map
MapPut(m, key, value) ==
    [k \in DOMAIN m \cup {key} |-> IF k = key THEN value ELSE m[k]]

\* the common tail of both resolution loops: hash the framed object, write
\* it, record it in objects and offToSha (full and done are computed once,
\* as the locals of the source are)
Persist(obj) ==
    \E full \in {FullOf(obj)} :
      \E done \in {[obj EXCEPT !.sha = shaToHex(SHA1(full))]} :
        /\ store' = writeObjectWithSha(full, done.sha, store)
        /\ tempObjs' = [tempObjs EXCEPT ![idx] = done]
        /\ objects' = MapPut(objects, done.sha, done)
        /\ offToSha' = MapPut(offToSha, done.offset, done.sha)

\* the first loop taking the delta entries (types 6 and 7) as well
MutCloneFirstPass ==
    /\ pc = "first_pass"
    /\ idx <= Len(tempObjs)
    /\ IF tempObjs[idx].type < 8
       THEN Persist(tempObjs[idx])
       ELSE UNCHANGED <<store, tempObjs, objects, offToSha>>
    /\ idx' = idx + 1
    /\ UNCHANGED <<headFile, workdir, out, ncmd, pc, response, headSha,
                   progress, remote>>

\* clone, step 4, first loop: one iteration
CloneFirstPass ==
    /\ pc = "first_pass"
    /\ idx <= Len(tempObjs)
    /\ IF tempObjs[idx].type < 6
       THEN Persist(tempObjs[idx])
       ELSE UNCHANGED <<store, tempObjs, objects, offToSha>>
    /\ idx' = idx + 1
    /\ UNCHANGED <<headFile, workdir, out, ncmd, pc, response, headSha,
                   progress, remote>>

\* the second loop run for a single pass, whatever progress it made
MutCloneResolveLoop ==
    /\ pc \in {"first_pass", "resolve"}
    /\ idx > Len(tempObjs)
    /\ IF pc = "first_pass"
       THEN /\ pc' = "resolve"
            /\ progress' = FALSE
            /\ idx' = 1
       ELSE /\ pc' = "checkout"
            /\ UNCHANGED <<progress, idx>>
    /\ UNCHANGED <<store, headFile, workdir, out, ncmd, response, headSha,
                   tempObjs, objects, offToSha, remote>>

\* while(progress): entered after the first loop, and again after a pass
\* of the second loop that made progress
CloneResolveLoop ==
    /\ pc \in {"first_pass", "resolve"}
    /\ idx > Len(tempObjs)
    /\ IF pc = "first_pass" \/ progress
       THEN /\ pc' = "resolve"
            /\ progress' = FALSE
            /\ idx' = 1
       ELSE /\ pc' = "checkout"
            /\ UNCHANGED <<progress, idx>>
    /\ UNCHANGED <<store, headFile, workdir, out, ncmd, response, headSha,
                   tempObjs, objects, offToSha, remote>>

\* the base a delta entry names, <<>> when it names none that is known
BaseShaOf(obj, offs) ==
    IF obj.type = 6 /\ obj.baseOffset \in DOMAIN offs THEN offs[obj.baseOffset]
    ELSE IF obj.type = 7 THEN obj.baseSha
    ELSE <<>>

\* clone, step 4, second loop: one iteration
CloneResolveStep ==
    /\ pc = "resolve"
    /\ idx <= Len(tempObjs)
    /\ LET obj     == tempObjs[idx]
           baseSha == BaseShaOf(obj, offToSha)
       IN  IF obj.sha = <<>> /\ baseSha # <<>> /\ baseSha \in DOMAIN objects
           THEN \E d \in {applyDelta(objects[baseSha].data, obj.data)} :
                    IF d.ok
                    THEN /\ Persist([obj EXCEPT
                                       !.data = d.data,
                                       !.type = objects[baseSha].type])
                         /\ progress' = TRUE
                         /\ idx' = idx + 1
                         /\ UNCHANGED <<pc, out>>
                    ELSE /\ CloneExit(1)
                         /\ UNCHANGED <<store, tempObjs, objects, offToSha,
                                        progress, idx>>
           ELSE /\ idx' = idx + 1
                /\ UNCHANGED <<store, tempObjs, objects, offToSha, progress,
                               pc, out>>
    /\ UNCHANGED <<headFile, workdir, ncmd, response, headSha, remote>>

\* clone, step 5: read the selected commit, find its tree, check it out
CloneCheckout ==
    /\ pc = "checkout"
    /\ LET commitObj == readObject(headSha, store)
           treeSha   == FindTreeLine(
                            SplitLines(AfterNul(commitObj.data), 1), 1)
           done      == checkoutRecursive(treeSha, <<>>, workdir, store)
       IN  IF commitObj.ok /\ treeSha # <<>> /\ done.ok
           THEN /\ workdir' = done.workdir
                /\ CloneExit(0)
           ELSE /\ workdir' = IF commitObj.ok /\ treeSha # <<>>
                              THEN done.workdir ELSE workdir
                /\ CloneExit(1)
    /\ UNCHANGED <<store, headFile, ncmd, response, headSha, tempObjs,
                   objects, offToSha, progress, idx, remote>>

NoOutput == [cmd |-> "none", exit |-> 0, stdout |-> <<>>, arg |-> <<>>]

Init ==
    /\ store = Nodes({})
    /\ headFile = <<>>
    /\ workdir \in InitWorkdirs
    /\ out = NoOutput
    /\ ncmd = 0
    /\ pc = "idle"
    /\ response = <<>>
    /\ headSha = <<>>
    /\ tempObjs = <<>>
    /\ objects = Nodes({})
    /\ offToSha = Nodes({})
    /\ progress = FALSE
    /\ idx = 0
    /\ remote = NoRemote

Next ==
    \/ CmdInit
    \/ \E sha \in StoreIds \cup {ZeroId} : CmdCatFile(sha)
    \/ \E content \in FileContents : CmdHashObject(content)
    \/ CmdWriteTree
    \/ \E tree_sha \in StoreIds \cup {ZeroId}, parent_sha \in {<<>>, ZeroId},
          message \in Messages :
            CmdCommitTree(tree_sha, parent_sha, message)
    \/ \E r \in Remotes : CmdClone(r)
    \/ CloneDiscovery
    \/ CloneRequestPack
    \/ CloneFirstPass
    \/ CloneResolveLoop
    \/ CloneResolveStep
    \/ CloneCheckout

Spec == Init /\ [][Next]_vars

\* the clone process keeps running: an iteration of the second loop that
\* can be taken is taken, and so is the test of while(progress)
LiveSpec ==
    Spec /\ WF_vars(CloneResolveStep) /\ WF_vars(CloneResolveLoop)

(***************************************************************************)
(* Properties                                                              *)
(***************************************************************************)
Kinds == {S_blob, S_tree, S_commit, S_tag}

\* the identifier writeObject gives an object
IdOf(kind, payload) == shaToHex(SHA1(Frame(kind, payload)))

\* the inflated bytes of the loose object at a path of the store
Loose(path) == inflate(store[path], 1).data

\* data is a framed object of the given kind
IsKind(data, kind) == Substr(data, 1, Len(kind) + 1) = kind \o <<32>>

\* C1: for every kind k and payload p, in every store the commands can
\* produce, writing (k, p) and reading the returned identifier back gives
\* the header "k <size of p>" before the first NUL and exactly p after it;
\* hash-object's printed identifier reads back as the blob of the content it
\* was given, and cat-file of the identifier of (k, p) prints p.
C1_RoundTrip ==
    /\ \A k \in Kinds, p \in FileContents :
          LET w == writeObject(k, p, store)
              r == readObject(shaToHex(w.sha), w.store)
          IN  /\ r.ok
              /\ BeforeNul(r.data) = k \o <<32>> \o to_string(Len(p))
              /\ AfterNul(r.data) = p
    /\ out.cmd = "hash-object" =>
          LET r == readObject(SubSeq(out.stdout, 1, 2 * DigestLen), store)
          IN  /\ r.ok
              /\ BeforeNul(r.data)
                    = S_blob \o <<32>> \o to_string(Len(out.arg))
              /\ AfterNul(r.data) = out.arg
    /\ (out.cmd = "cat-file" /\ out.exit = 0) =>
          \A k \in Kinds, p \in FileContents :
              out.arg = IdOf(k, p) => out.stdout = p

\* C1 witness: after write-tree has put several objects, cat-file of the
\* identifier of a blob whose payload holds a NUL prints that payload.
C1_Witness ==
    /\ out.cmd = "cat-file"
    /\ out.exit = 0
    /\ Cardinality(DOMAIN store) >= 3
    /\ out.arg = IdOf(S_blob, <<0, 120>>)
    /\ out.stdout = <<0, 120>>

\* C2: every loose object inflates to bytes whose SHA-1, in hex, is the
\* path it is stored under.
C2_ContentAddressed ==
    \A path \in DOMAIN store :
        LET r == inflate(store[path], 1)
        IN  r.ok /\ ObjectPath(shaToHex(SHA1(r.data))) = path

\* C2 witness: a clone has persisted an object it made from a ref-delta.
C2_Witness ==
    \E i \in 1..Len(tempObjs) :
        /\ tempObjs[i].baseSha # <<>>
        /\ tempObjs[i].sha # <<>>
        /\ ObjectPath(tempObjs[i].sha) \in DOMAIN store

\* the entries of a tree payload from the 0-based position i on
RECURSIVE DecodeTree(_, _)
DecodeTree(body, i) ==
    IF i >= Len(body) THEN <<>>
    ELSE LET spacePos == FindByte(body, 32, i + 1)
             nullPos  == FindByte(body, 0, spacePos)
         IN  <<[mode   |-> SubSeq(body, i + 1, spacePos - 1),
                name   |-> SubSeq(body, spacePos + 1, nullPos - 1),
                shaRaw |-> Substr(body, nullPos + 1, DigestLen)]>>
                \o DecodeTree(body, nullPos + DigestLen)

\* the key git orders a tree entry by: the name, with "/" appended for a
\* directory
CanonicalKey(e) == IF e.mode = S_40000 THEN e.name \o <<47>> ELSE e.name

CanonicalOrder(entries) ==
    \A i \in 1..(Len(entries) - 1) :
        StrLess(CanonicalKey(entries[i]), CanonicalKey(entries[i + 1]))

\* C3: after write-tree, every tree object of the store lists its entries
\* in the canonical order (a directory N ordered as N + "/").
C3_TreesCanonical ==
    out.cmd = "write-tree" =>
        \A path \in DOMAIN store :
            IsKind(Loose(path), S_tree) =>
                CanonicalOrder(DecodeTree(AfterNul(Loose(path)), 0))

\* the identifier a list of references advertises for a name, <<>> if none
AdvertisedSha(refs, name) ==
    IF \E i \in 1..Len(refs) : refs[i].name = name
    THEN refs[CHOOSE i \in 1..Len(refs) : refs[i].name = name].sha
    ELSE <<>>

\* the commit a clone is to select: that of refs/heads/master, else that of
\* HEAD, else none
ExpectedSha(ad) ==
    IF AdvertisedSha(ad.refs, S_refs_heads_master) # <<>>
    THEN AdvertisedSha(ad.refs, S_refs_heads_master)
    ELSE AdvertisedSha(ad.refs, S_HEAD)

\* a clone that got an advertisement and is past discovery
PastDiscovery == remote.up /\ out.cmd = "clone" /\ pc # "discovery"

\* C4: past discovery, the selected commit is the one advertised for
\* refs/heads/master, else the one advertised for HEAD, and the clone has
\* failed when neither is advertised.
C4_Selection ==
    PastDiscovery =>
        IF ExpectedSha(remote.ad) = <<>>
        THEN pc = "idle" /\ out.exit # 0 /\ headSha = <<>>
        ELSE headSha = ExpectedSha(remote.ad)

S_ref_prefix ==                                     \* "ref: refs/heads/"
    <<114,101,102,58,32,114,101,102,115,47,104,101,97,100,115,47>>

\* the branch whose commit discovery is to select: master when it is
\* advertised, else the branch HEAD points at
SelectedBranch(ad) ==
    IF AdvertisedSha(ad.refs, S_refs_heads_master) # <<>> THEN B_master
    ELSE ad.sym

\* C5: after a successful clone .git/HEAD is
\* "ref: refs/heads/<selected-branch>\n".
C5_HeadNamesSelectedBranch ==
    (pc = "idle" /\ out.cmd = "clone" /\ out.exit = 0) =>
        headFile = S_ref_prefix \o SelectedBranch(remote.ad) \o <<10>>

\* the second loop has ended without progress (the fixed point)
FixedPoint ==
    /\ pc \in {"checkout", "idle"}
    /\ out.cmd = "clone"
    /\ tempObjs # <<>>
    /\ idx > Len(tempObjs)
    /\ ~progress

Unresolved == \E i \in 1..Len(tempObjs) : tempObjs[i].sha = <<>>

\* C6: a clone that reached the fixed point with a delta still unresolved
\* ends with a nonzero exit code (and so without a checkout).
C6_UnresolvedIsFatal ==
    (pc = "idle" /\ FixedPoint /\ Unresolved) => out.exit # 0

\* some file below the working directory (outside .git) cannot be read
HasUnreadable ==
    \E p \in DOMAIN workdir :
        workdir[p].kind = "file" /\ ~workdir[p].readable

\* C7: write-tree over a directory with an unreadable file fails: nonzero
\* exit code, no identifier printed, no tree object written.
C7_UnreadableAborts ==
    (out.cmd = "write-tree" /\ HasUnreadable) =>
        /\ out.exit # 0
        /\ out.stdout = <<>>
        /\ \A path \in DOMAIN store : ~IsKind(Loose(path), S_tree)

\* the entries of the pack as they were parsed, before resolution
Parsed == IF tempObjs = <<>> THEN <<>> ELSE ParsePack(response)

IsDelta(obj) == obj.type \in {6, 7}

\* C8: every object made from a delta and persisted has exactly the length
\* the delta declares as its target size.
C8_TargetSize ==
    \A i \in 1..Len(tempObjs) :
        (IsDelta(Parsed[i]) /\ tempObjs[i].sha # <<>>) =>
            Len(tempObjs[i].data) = DeltaTargetSize(Parsed[i].data)

\* the instruction stream of a delta holds a command byte 0, reading the
\* instructions from the 0-based pos on
RECURSIVE HasCmdZero(_, _)
HasCmdZero(delta, pos) ==
    IF pos >= Len(delta) THEN FALSE
    ELSE LET cmd == delta[pos + 1]
         IN  IF cmd = 0 THEN TRUE
             ELSE IF cmd >= 128
             THEN HasCmdZero(delta,
                    pos + 1 + Cardinality({k \in 0..6 : Bit(cmd, k)}))
             ELSE HasCmdZero(delta, pos + 1 + cmd)

ReservedCmd(delta) ==
    HasCmdZero(delta, DeltaSize(delta, DeltaSize(delta, 0, 0, 0).pos, 0, 0).pos)

\* C9: no object is made and persisted from a delta whose instructions
\* hold a command byte 0, and the clone that met one has failed.
C9_CmdZeroRejected ==
    \A i \in 1..Len(tempObjs) :
        (IsDelta(Parsed[i]) /\ ReservedCmd(Parsed[i].data)) =>
            /\ tempObjs[i].sha = <<>>
            /\ (pc = "idle" => out.exit # 0)

\* C10: no loose object is persisted for a pack entry of type 0 or 5, and
\* the clone that met one has failed.
C10_UnknownTypeRejected ==
    \A i \in 1..Len(tempObjs) :
        Parsed[i].type \in {0, 5} =>
            /\ tempObjs[i].sha = <<>>
            /\ (pc = "idle" => out.exit # 0)

\* an object with this identifier is in the store
InStore(sha) == sha # <<>> /\ ObjectPath(sha) \in DOMAIN store

\* this step of a resolution loop persists entry i of the pack
PersistedNow(i) ==
    /\ pc \in {"first_pass", "resolve"}
    /\ Len(tempObjs') = Len(tempObjs)
    /\ tempObjs[i].sha = <<>>
    /\ tempObjs'[i].sha # <<>>
    /\ ObjectPath(tempObjs'[i].sha) \in DOMAIN store'

\* the base of the delta entry obj is an entry of the pack that has been
\* persisted: the entry at its base offset (ofs-delta) or one with the
\* identifier it names (ref-delta)
BasePersisted(obj) ==
    \E j \in 1..Len(tempObjs) :
        /\ InStore(tempObjs[j].sha)
        /\ IF obj.type = 6 THEN tempObjs[j].offset = obj.baseOffset
           ELSE tempObjs[j].sha = obj.baseSha

\* C11: a step that persists a delta entry of the pack starts in a state
\* where every non-delta entry of the pack is already persisted and where
\* the base of that delta is already persisted (so store writes follow the
\* dependencies, at any depth of a chain).
C11_DependencyOrder ==
    [][\A i \in 1..Len(tempObjs) :
          (PersistedNow(i) /\ IsDelta(tempObjs[i])) =>
              /\ \A j \in 1..Len(tempObjs) :
                     ~IsDelta(Parsed[j]) => InStore(tempObjs[j].sha)
              /\ BasePersisted(tempObjs[i])]_vars

\* a delta on a delta (a chain of depth 2) has been persisted
C11_Witness ==
    \E i, j \in 1..Len(tempObjs) :
        /\ IsDelta(Parsed[i]) /\ IsDelta(Parsed[j])
        /\ Parsed[i].type = 6 /\ Parsed[i].baseOffset = Parsed[j].offset
        /\ InStore(tempObjs[i].sha) /\ InStore(tempObjs[j].sha)

\* the entries among those resolved so far (res: index -> [type, data, sha,
\* root]) that are the base of the parsed delta entry es[i]
BaseIndex(es, res, i) ==
    {j \in DOMAIN res :
        IF es[i].type = 6 THEN es[j].offset = es[i].baseOffset
        ELSE res[j].sha = es[i].baseSha}

\* what the parsed entry es[i] is, given the resolved entries res: a
\* non-delta entry is itself, a delta is its instructions applied to its
\* base, with the type and the root of the base
Derive(es, res, i) ==
    IF ~IsDelta(es[i])
    THEN [type |-> es[i].type, data |-> es[i].data, root |-> i,
          sha  |-> shaToHex(SHA1(Frame(typeToString(es[i].type), es[i].data)))]
    ELSE LET b == CHOOSE j \in BaseIndex(es, res, i) : TRUE
             d == applyDelta(res[b].data, es[i].data).data
         IN  [type |-> res[b].type, data |-> d, root |-> res[b].root,
              sha  |-> shaToHex(SHA1(Frame(typeToString(res[b].type), d)))]

\* the entries of a pack whose base chain ends at a non-delta entry of the
\* pack, found by rounds: round 0 gives the non-delta entries, each later
\* round the deltas whose base the rounds before it gave
RECURSIVE Closure(_, _, _)
Closure(es, res, rounds) ==
    IF rounds = 0 THEN res
    ELSE LET new == {i \in (1..Len(es)) \ DOMAIN res :
                        ~IsDelta(es[i]) \/ BaseIndex(es, res, i) # {}}
         IN  IF new = {} THEN res
             ELSE Closure(es,
                    [i \in DOMAIN res \cup new |->
                        IF i \in DOMAIN res THEN res[i]
                        ELSE Derive(es, res, i)],
                    rounds - 1)

Chained == Closure(Parsed, Nodes({}), Len(Parsed) + 1)

\* the state the second loop leaves when its while(progress) test fails
LoopExited == pc = "checkout"

\* every entry whose base chain ends at a non-delta entry of the pack is
\* resolved to what its chain gives, has the type of that non-delta entry
\* and is in the store
ChainsResolved ==
    \A i \in DOMAIN Chained :
        /\ tempObjs[i].sha = Chained[i].sha
        /\ tempObjs[i].data = Chained[i].data
        /\ tempObjs[i].type = Parsed[Chained[i].root].type
        /\ InStore(tempObjs[i].sha)
        /\ Loose(ObjectPath(tempObjs[i].sha)) = FullOf(tempObjs[i])

\* C12: the second resolution loop always ends (by its while(progress)
\* test failing, or by the process ending on an exception of applyDelta),
\* and when its test fails every entry whose base chain ends at a non-delta
\* entry of the pack is resolved, has that entry's type and is persisted,
\* wherever its base stands in the pack and however long the chain.
C12_LoopReachesFixedPoint ==
    /\ [](LoopExited => ChainsResolved)
    /\ ((pc = "resolve") ~> (pc # "resolve"))

\* the loop has ended on a pack where a ref-delta stands before its base,
\* itself a ref-delta standing before its own non-delta base
C12_Witness ==
    /\ LoopExited
    /\ \E i, j, k \in 1..Len(tempObjs) :
          /\ i < j /\ j < k
          /\ Parsed[i].type = 7 /\ Parsed[j].type = 7 /\ ~IsDelta(Parsed[k])
          /\ Parsed[i].baseSha = tempObjs[j].sha
          /\ Parsed[j].baseSha = tempObjs[k].sha
          /\ InStore(tempObjs[i].sha)
          /\ tempObjs[i].type = Parsed[k].type

====
